---- MODULE Spec2Model ----
(***************************************************************************)
(* The paginator of sqlbuilder (an immutable chain of frames resolved by   *)
(* replay) and the Selector it hands its queries to; and the array codecs  *)
(* of package postgresql (StringArray, Int64Array).                        *)
(*                                                                         *)
(* A paginator handle is a frame {fn, prev}.  Every fluent call allocates  *)
(* one frame pointing at the handle it was called on.  A terminal call     *)
(* replays the chain of its handle over a fresh paginatorQuery and hands   *)
(* the resulting Selector on.                                              *)
(***************************************************************************)
EXTENDS Integers, Sequences, FiniteSets, TLC

VARIABLES frames, last, codec

vars == <<frames, last, codec>>

(***************************************************************************)
(* Bounds of the model.                                                    *)
(***************************************************************************)
\* frames allocated in a run where only the newest handle is extended
MaxFrames == 6
\* frames allocated in a run where any handle may be extended (forks)
MaxForkFrames == 5
\* width of Go's int in the model (two's complement, 64 in the build)
IntBits == 4
\* frames allocated in a run that ends with a count (TotalPages, TotalItems)
MaxCountFrames == 5
\* largest row count the count query reports
MaxCount == 2

Pow2(n) == 2 ^ n

MinInt == 0 - Pow2(IntBits - 1)

MaxInt == Pow2(IntBits - 1) - 1

\* page sizes given to newPaginator: negative, zero, one, and 2^(w-2)
PageSizes == {-2, 0, 1, Pow2(IntBits - 2)}

\* page numbers given to Page
PageNumbers == {-2, 0, 2}

\* cursor columns given to Cursor, as sequences of characters: "", "id", "-id"
Columns == {<<>>, <<"i", "d">>, <<"-", "i", "d">>}

\* the nil interface value
Nil == <<>>

\* cursor values given to NextPage and PrevPage: nil and 1
Values == {Nil, <<1>>}

(***************************************************************************)
(* Integers of Go: the product of two ints wraps around.                   *)
(***************************************************************************)
Wrap(x) == ((x - MinInt) % Pow2(IntBits)) + MinInt

Mul(a, b) == Wrap(a * b)

(***************************************************************************)
(* Errors.                                                                 *)
(***************************************************************************)
NoErr == "nil"

errMissingCursorColumn == "Missing cursor column"

\* the error row.Scan reports when the count query failed
errScan == "scan error"

(***************************************************************************)
(* The Selector: the query configuration the paginator composes.  An       *)
(* unset field is <<>>, a set one <<v>>; where is the list of the          *)
(* predicates handed to Where, in order.                                   *)
(***************************************************************************)
\* the nil Selector of a fresh paginatorQuery
NilSel ==
    [src |-> "nil", columns |-> <<>>, limit |-> <<>>, offset |-> <<>>,
     orderBy |-> <<>>, where |-> <<>>, from |-> <<>>]

\* the Selector the caller gives to newPaginator
UserSel == [NilSel EXCEPT !.src = "sel"]

Limit(s, n) == [s EXCEPT !.limit = <<n>>]

Offset(s, n) == [s EXCEPT !.offset = <<n>>]

OrderBy(s, column) == [s EXCEPT !.orderBy = <<column>>]

Where(s, cond) == [s EXCEPT !.where = Append(@, cond)]

setColumns(s, column) == [s EXCEPT !.columns = <<column>>]

\* SQLBuilder().Select(column).From(db.Raw("? AS _q0", inner))
SelectFrom(column, inner) ==
    [NilSel EXCEPT !.src = "subquery", !.columns = <<column>>, !.from = <<inner>>]

(***************************************************************************)
(* paginatorQuery, the resolved state.  A db.Cond is the set of its        *)
(* entries {key, value}; the nil Cond is the empty set (the code builds no *)
(* empty Cond).                                                            *)
(***************************************************************************)
NilCond == {}

Cond(key, value) == {[key |-> key, value |-> value]}

\* &paginatorQuery{}
Base ==
    [sel |-> NilSel, cursorColumn |-> <<>>, cursorValue |-> Nil,
     cursorCond |-> NilCond, cursorReverseOrder |-> FALSE,
     pageSize |-> 0, pageNumber |-> 0]

Ok(pq) == [pq |-> pq, err |-> NoErr]

Fail(pq, err) == [pq |-> pq, err |-> err]

(***************************************************************************)
(* The mutations of the frames: each takes the paginatorQuery it is        *)
(* applied to and yields the mutated one and the error it returns.         *)
(***************************************************************************)
\* the frame of newPaginator
newPaginatorFn(pageSize, pq) ==
    LET size == IF pageSize < 0 THEN -1 ELSE pageSize
    IN  Ok([pq EXCEPT !.pageSize = size, !.sel = Limit(UserSel, size)])

\* a Page that takes a negative number for page 0
PageFnZero(pageNumber, pq) ==
    LET number == IF pageNumber < 0 THEN 0 ELSE pageNumber
    IN  Ok([pq EXCEPT !.pageNumber = number,
                      !.sel = Offset(pq.sel, Mul(pq.pageSize, number))])

PageFn(pageNumber, pq) ==
    LET number == IF pageNumber < 0 THEN -1 ELSE pageNumber
    IN  IF number < 0
        THEN Ok([pq EXCEPT !.pageNumber = number, !.sel = Offset(pq.sel, -1)])
        ELSE Ok([pq EXCEPT !.pageNumber = number,
                           !.sel = Offset(pq.sel, Mul(pq.pageSize, number))])

CursorFn(column, pq) ==
    Ok([pq EXCEPT !.cursorColumn = column, !.cursorValue = Nil])

\* a NextPage that adds its predicate to the condition it finds
NextPageFnAdding(cursorValue, pq) ==
    IF pq.cursorValue # Nil /\ pq.cursorColumn = <<>>
    THEN Fail(pq, errMissingCursorColumn)
    ELSE Ok([pq EXCEPT !.cursorValue = cursorValue,
                       !.cursorReverseOrder = FALSE,
                       !.cursorCond = @ \cup Cond(pq.cursorColumn \o <<" ", ">">>,
                                                  cursorValue)])

NextPageFn(cursorValue, pq) ==
    IF pq.cursorValue # Nil /\ pq.cursorColumn = <<>>
    THEN Fail(pq, errMissingCursorColumn)
    ELSE Ok([pq EXCEPT !.cursorValue = cursorValue,
                       !.cursorReverseOrder = FALSE,
                       !.cursorCond = Cond(pq.cursorColumn \o <<" ", ">">>, cursorValue)])

\* a PrevPage that does not check the cursor column
PrevPageFnUnchecked(cursorValue, pq) ==
    Ok([pq EXCEPT !.cursorValue = cursorValue,
                  !.cursorReverseOrder = TRUE,
                  !.cursorCond = Cond(pq.cursorColumn \o <<" ", "<">>, cursorValue)])

PrevPageFn(cursorValue, pq) ==
    IF pq.cursorValue # Nil /\ pq.cursorColumn = <<>>
    THEN Fail(pq, errMissingCursorColumn)
    ELSE Ok([pq EXCEPT !.cursorValue = cursorValue,
                       !.cursorReverseOrder = TRUE,
                       !.cursorCond = Cond(pq.cursorColumn \o <<" ", "<">>, cursorValue)])

\* paginator.Fn: a frame without a function changes nothing
Fn(f, pq) ==
    CASE f.fn.op = "nil" -> Ok(pq)
      [] f.fn.op = "new" -> newPaginatorFn(f.fn.arg, pq)
      [] f.fn.op = "Page" -> PageFn(f.fn.arg, pq)
      [] f.fn.op = "Cursor" -> CursorFn(f.fn.arg, pq)
      [] f.fn.op = "NextPage" -> NextPageFn(f.fn.arg, pq)
      [] f.fn.op = "PrevPage" -> PrevPageFn(f.fn.arg, pq)

\* paginator.Prev: 0 is the nil paginator
Prev(fr, h) == IF h = 0 THEN 0 ELSE fr[h].prev

(***************************************************************************)
(* immutable.FastForward: replay of the chain of h, oldest frame first,    *)
(* over Base, stopping at the first error.  applied lists the frames whose *)
(* function was called, in the order of the calls.                         *)
(***************************************************************************)
RECURSIVE FastForward(_, _)
FastForward(fr, h) ==
    IF h = 0
    THEN [pq |-> Base, err |-> NoErr, applied |-> <<>>]
    ELSE LET in == FastForward(fr, Prev(fr, h))
         IN  IF in.err # NoErr
             THEN in
             ELSE LET r == Fn(fr[h], in.pq)
                  IN  [pq |-> r.pq, err |-> r.err, applied |-> Append(in.applied, h)]

\* a frame that also stores the function in the handle it was called on
frameShared(fr, pag, fn) ==
    Append([fr EXCEPT ![pag].fn = fn], [fn |-> fn, prev |-> pag])

\* paginator.frame: a new frame on top of pag; no frame is changed
frame(fr, pag, fn) == Append(fr, [fn |-> fn, prev |-> pag])

\* newPaginator: the root (&paginator{}), the frame of the limit, and Page(0)
newPaginator(pageSize) ==
    LET root == <<[fn |-> [op |-> "nil", arg |-> 0], prev |-> 0]>>
        sized == frame(root, Len(root), [op |-> "new", arg |-> pageSize])
    IN  frame(sized, Len(sized), [op |-> "Page", arg |-> 0])

(***************************************************************************)
(* Resolution.                                                             *)
(***************************************************************************)
\* a build that drops the error of the resolution
buildLenient(fr, pag) == Ok(FastForward(fr, pag).pq)

\* paginator.build
build(fr, pag) ==
    LET r == FastForward(fr, pag)
    IN  IF r.err # NoErr THEN Fail(Base, r.err) ELSE Ok(r.pq)

\* strings.HasPrefix(orderBy, "-")
HasDashPrefix(column) == Len(column) > 0 /\ column[1] = "-"

\* a flip that only ever adds the dash
FlipOrderDash(column) == <<"-">> \o column

\* the ordering of a backward page: the direction of the column flipped
FlipOrder(column) ==
    IF HasDashPrefix(column) THEN Tail(column) ELSE <<"-">> \o column

\* the first step of buildWithCursor: ORDER BY the cursor column
CursorOrder(pq) ==
    IF pq.cursorColumn # <<>>
    THEN [pq EXCEPT !.sel = OrderBy(pq.sel,
                                    IF pq.cursorReverseOrder
                                    THEN FlipOrder(pq.cursorColumn)
                                    ELSE pq.cursorColumn)]
    ELSE pq

\* a second step that keeps the offset of Page
CursorWhereKeepOffset(pq) ==
    IF pq.cursorCond # NilCond
    THEN [pq EXCEPT !.sel = Where(pq.sel, pq.cursorCond)]
    ELSE pq

\* the second step: the cursor condition as a filter, and offset 0
CursorWhere(pq) ==
    IF pq.cursorCond # NilCond
    THEN [pq EXCEPT !.sel = Offset(Where(pq.sel, pq.cursorCond), 0)]
    ELSE pq

\* a third step that wraps no query
CursorWrapNever(pq) == pq

\* the third step: a backward page is wrapped and ordered again
CursorWrap(pq) ==
    IF pq.cursorReverseOrder
    THEN [pq EXCEPT !.sel = OrderBy(SelectFrom("_q0.*", pq.sel), pq.cursorColumn)]
    ELSE pq

\* paginator.buildWithCursor
buildWithCursor(fr, pag) ==
    LET r == FastForward(fr, pag)
    IN  IF r.err # NoErr
        THEN Fail(Base, r.err)
        ELSE Ok(CursorWrap(CursorWhere(CursorOrder(r.pq))))

(***************************************************************************)
(* The terminal calls.  The outcome of a call: the Selector operation it   *)
(* invoked ("" when none) and the query it invoked it on, the error it     *)
(* returned, whether it panicked, and what it returned: "selector" for the *)
(* Selector's own result handed on unchanged.                              *)
(***************************************************************************)
Outcome(op, pag, invoked, query, err, panic, ret) ==
    [op |-> op, pag |-> pag, invoked |-> invoked, query |-> query,
     err |-> err, panic |-> panic, ret |-> ret]

\* no terminal call was made yet
NoCall == Outcome("", 0, "", NilSel, NoErr, FALSE, <<>>)

\* return pq.sel.<op>(...): the Selector's result and error, unchanged
Delegate(op, pag, pq) == Outcome(op, pag, op, pq.sel, "selector", FALSE, <<"selector">>)

\* the methods that return the error of the resolution
ReturnErr(op, fr, pag) ==
    LET r == buildWithCursor(fr, pag)
    IN  IF r.err # NoErr
        THEN Outcome(op, pag, "", NilSel, r.err, FALSE, <<"nil">>)
        ELSE Delegate(op, pag, r.pq)

All(fr, pag) == ReturnErr("All", fr, pag)

One(fr, pag) == ReturnErr("One", fr, pag)

Query(fr, pag) == ReturnErr("Query", fr, pag)

QueryContext(fr, pag) == ReturnErr("QueryContext", fr, pag)

QueryRow(fr, pag) == ReturnErr("QueryRow", fr, pag)

QueryRowContext(fr, pag) == ReturnErr("QueryRowContext", fr, pag)

Prepare(fr, pag) == ReturnErr("Prepare", fr, pag)

PrepareContext(fr, pag) == ReturnErr("PrepareContext", fr, pag)

\* the methods that return &iterator{nil, err}: the error is in the iterator
ReturnIterator(op, fr, pag) ==
    LET r == buildWithCursor(fr, pag)
    IN  IF r.err # NoErr
        THEN Outcome(op, pag, "", NilSel, NoErr, FALSE, <<"iterator", r.err>>)
        ELSE Delegate(op, pag, r.pq)

Iterator(fr, pag) == ReturnIterator("Iterator", fr, pag)

IteratorContext(fr, pag) == ReturnIterator("IteratorContext", fr, pag)

\* paginator.String: panics with the text of the error
String(fr, pag) ==
    LET r == buildWithCursor(fr, pag)
    IN  IF r.err # NoErr
        THEN Outcome("String", pag, "", NilSel, NoErr, TRUE, <<"panic", r.err>>)
        ELSE Delegate("String", pag, r.pq)

\* paginator.Arguments: returns nil when the resolution failed
Arguments(fr, pag) ==
    LET r == buildWithCursor(fr, pag)
    IN  IF r.err # NoErr
        THEN Outcome("Arguments", pag, "", NilSel, NoErr, FALSE, <<"nil">>)
        ELSE Delegate("Arguments", pag, r.pq)

FetchOps ==
    {"All", "One", "Iterator", "IteratorContext", "String", "Arguments", "Query",
     "QueryContext", "QueryRow", "QueryRowContext", "Prepare", "PrepareContext"}

Fetch(op, fr, pag) ==
    CASE op = "All" -> All(fr, pag)
      [] op = "One" -> One(fr, pag)
      [] op = "Iterator" -> Iterator(fr, pag)
      [] op = "IteratorContext" -> IteratorContext(fr, pag)
      [] op = "String" -> String(fr, pag)
      [] op = "Arguments" -> Arguments(fr, pag)
      [] op = "Query" -> Query(fr, pag)
      [] op = "QueryContext" -> QueryContext(fr, pag)
      [] op = "QueryRow" -> QueryRow(fr, pag)
      [] op = "QueryRowContext" -> QueryRowContext(fr, pag)
      [] op = "Prepare" -> Prepare(fr, pag)
      [] op = "PrepareContext" -> PrepareContext(fr, pag)

(***************************************************************************)
(* The count query.  What the Selector's QueryRow and the scan of its row  *)
(* do is the executor's: a row with a count, a row whose scan fails, or no *)
(* row at all (a nil *sql.Row with the error of the query).                *)
(***************************************************************************)
CountExecs ==
    {[kind |-> "row", n |-> n] : n \in 0..MaxCount}
        \cup {[kind |-> "scanerr", n |-> 0], [kind |-> "nilrow", n |-> 0]}

\* a count query that keeps the offset of the page
CountQueryKeepOffset(pq) == Limit(setColumns(pq.sel, "count(1) AS _t"), 0)

\* the query of paginatorQuery.count
CountQuery(pq) == Offset(Limit(setColumns(pq.sel, "count(1) AS _t"), 0), 0)

\* paginatorQuery.count: the error of QueryRow is overwritten by the one of
\* row.Scan, and row.Scan on a nil row is a nil dereference
count(pq, exec) ==
    CASE exec.kind = "row" -> [count |-> exec.n, err |-> NoErr, panic |-> FALSE]
      [] exec.kind = "scanerr" -> [count |-> 0, err |-> errScan, panic |-> FALSE]
      [] exec.kind = "nilrow" -> [count |-> 0, err |-> NoErr, panic |-> TRUE]

\* math.Ceil(float64(count) / float64(pageSize)), for a positive pageSize
CeilDiv(n, pageSize) ==
    IF n % pageSize = 0 THEN n \div pageSize ELSE (n \div pageSize) + 1

TotalPages(fr, pag, exec) ==
    LET r == build(fr, pag)
        c == count(r.pq, exec)
    IN  IF r.err # NoErr
        THEN Outcome("TotalPages", pag, "", NilSel, r.err, FALSE, <<0>>)
        ELSE IF c.panic
        THEN Outcome("TotalPages", pag, "QueryRow", CountQuery(r.pq), NoErr, TRUE,
                     <<"panic">>)
        ELSE IF c.err # NoErr
        THEN Outcome("TotalPages", pag, "QueryRow", CountQuery(r.pq), c.err, FALSE, <<0>>)
        ELSE IF r.pq.pageSize <= 0
        THEN Outcome("TotalPages", pag, "QueryRow", CountQuery(r.pq), NoErr, FALSE, <<1>>)
        ELSE Outcome("TotalPages", pag, "QueryRow", CountQuery(r.pq), NoErr, FALSE,
                     <<CeilDiv(c.count, r.pq.pageSize)>>)

TotalItems(fr, pag, exec) ==
    LET r == build(fr, pag)
        c == count(r.pq, exec)
    IN  IF r.err # NoErr
        THEN Outcome("TotalItems", pag, "", NilSel, r.err, FALSE, <<0>>)
        ELSE IF c.panic
        THEN Outcome("TotalItems", pag, "QueryRow", CountQuery(r.pq), NoErr, TRUE,
                     <<"panic">>)
        ELSE Outcome("TotalItems", pag, "QueryRow", CountQuery(r.pq), c.err, FALSE,
                     <<c.count>>)

(***************************************************************************)
(* The array codecs of package postgresql.  A byte is a string of one      *)
(* character and a Go string or []byte the sequence of its bytes.  A slice *)
(* is nil or not, and has its elements; an interface value (the src of     *)
(* Scan, the driver.Value of Value) is nil, a []byte, or of another type.  *)
(***************************************************************************)
\* bytes of the sources given to StringArray.Scan, and of the strings given
\* to StringArray.Value: one for each case of the scanner, and a letter
StringBytes == {"{", "}", ",", "\"", "\\", " ", "a"}

\* bytes of the sources given to Int64Array.Scan
Int64Bytes == {"{", "}", ",", "1", "-", "a"}

\* the int64 given to Int64Array.Value
Int64s == {-12, 0, 7}

\* length of a byte source given to Scan
MaxBytes == 4
\* number of elements plus number of bytes of a StringArray given to Value
MaxWeight == 5
\* number of elements of an Int64Array given to Value
MaxInts == 2

stateInit == 0

stateOpenBracket == 1

stateOpenQuote == 2

stateLiteral == 3

stateEscape == 4

stateStop == 5

NilSlice == [nil |-> TRUE, v |-> <<>>]

Slice(v) == [nil |-> FALSE, v |-> v]

NilValue == [kind |-> "nil", b |-> <<>>]

Bytes(b) == [kind |-> "bytes", b |-> b]

\* a source that is no []byte
StringValue == [kind |-> "string", b |-> <<>>]

errNotBytes == "Scan source was not []bytes"

errBeyond == "Got additional data beyond expected bounds"

errExpecting == "Expecting {"

\* the error of strconv.ParseInt for a token that is no number
errSyntax == "invalid syntax"

\* what a Scan leaves: the receiver, the error returned, whether it panicked
Scanned(a, err, panic) == [a |-> a, err |-> err, panic |-> panic]

\* one pass of the loop of StringArray.Scan, on the byte c
ScanByte(st, c) ==
    CASE st.state = stateStop -> [st EXCEPT !.err = errBeyond]
      [] st.state = stateInit ->
            IF c = "{"
            THEN [st EXCEPT !.buffer = NilSlice, !.state = stateOpenBracket]
            ELSE [st EXCEPT !.err = errExpecting]
      [] st.state = stateOpenBracket ->
            CASE c = "}" ->
                    [st EXCEPT !.results = IF st.buffer.nil THEN @
                                           ELSE Append(@, st.buffer.v),
                               !.state = stateStop]
              [] c = " " -> st
              [] c = "," ->
                    [st EXCEPT !.results = Append(@, st.buffer.v),
                               !.buffer = Slice(<<>>)]
              [] c = "\"" -> [st EXCEPT !.state = stateOpenQuote, !.buffer = Slice(<<>>)]
              [] OTHER -> [st EXCEPT !.state = stateLiteral, !.buffer = Slice(<<c>>)]
      [] st.state = stateLiteral ->
            CASE c = "}" ->
                    [st EXCEPT !.results = Append(@, st.buffer.v), !.state = stateStop]
              [] c = "," ->
                    [st EXCEPT !.results = Append(@, st.buffer.v),
                               !.buffer = Slice(<<>>),
                               !.state = stateOpenBracket]
              [] OTHER -> [st EXCEPT !.buffer = Slice(Append(st.buffer.v, c))]
      [] st.state = stateEscape ->
            [st EXCEPT !.buffer = Slice(Append(st.buffer.v, c)),
                       !.state = stateOpenQuote]
      [] st.state = stateOpenQuote ->
            CASE c = "\\" -> [st EXCEPT !.state = stateEscape]
              [] c = "\"" -> [st EXCEPT !.state = stateOpenBracket]
              [] OTHER -> [st EXCEPT !.buffer = Slice(Append(st.buffer.v, c))]

\* a loop that stops at stateStop and ignores the bytes that follow
RECURSIVE ScanLoopUntilStop(_, _, _)
ScanLoopUntilStop(b, i, st) ==
    IF i > Len(b) \/ st.state = stateStop
    THEN st
    ELSE LET n == ScanByte(st, b[i])
         IN  IF n.err # NoErr THEN n ELSE ScanLoopUntilStop(b, i + 1, n)

\* the loop of StringArray.Scan from the byte at position i (the first byte
\* of b is at 1) to the end of b, or to the pass that returns an error
RECURSIVE ScanLoop(_, _, _)
ScanLoop(b, i, st) ==
    IF i > Len(b)
    THEN st
    ELSE LET n == ScanByte(st, b[i])
         IN  IF n.err # NoErr THEN n ELSE ScanLoop(b, i + 1, n)

\* the scanner before the loop: the loop starts in stateOpenBracket at the
\* second byte
ScanStart ==
    [state |-> stateOpenBracket, buffer |-> NilSlice, results |-> <<>>, err |-> NoErr]

\* StringArray.Scan on the receiver a
StringArrayScan(a, src) ==
    IF src.kind = "nil" THEN Scanned(NilSlice, NoErr, FALSE)
    ELSE IF src.kind # "bytes" THEN Scanned(a, errNotBytes, FALSE)
    ELSE IF Len(src.b) = 0 THEN Scanned(NilSlice, NoErr, FALSE)
    ELSE LET st == ScanLoop(src.b, 2, ScanStart)
         IN  IF st.err # NoErr
             THEN Scanned(a, st.err, FALSE)
             ELSE Scanned(Slice(st.results), NoErr, FALSE)

\* an encoder that escapes nothing
appendArrayQuotedStringRaw(b, v) == b \o <<"\"">> \o v \o <<"\"">>

\* the bytes of v, with a backslash before each quote and each backslash
RECURSIVE Escaped(_)
Escaped(v) ==
    IF v = <<>> THEN <<>>
    ELSE IF Head(v) \in {"\"", "\\"}
    THEN <<"\\", Head(v)>> \o Escaped(Tail(v))
    ELSE <<Head(v)>> \o Escaped(Tail(v))

appendArrayQuotedString(b, v) == b \o <<"\"">> \o Escaped(v) \o <<"\"">>

\* the loop of StringArray.Value over the elements of a from the i-th
RECURSIVE AppendStrings(_, _, _)
AppendStrings(b, a, i) ==
    IF i > Len(a) THEN b
    ELSE AppendStrings(appendArrayQuotedString(Append(b, ","), a[i]), a, i + 1)

\* a Value that takes a slice with no element for an absent one
StringArrayValueEmptyNull(a) ==
    IF a.nil \/ Len(a.v) = 0 THEN [value |-> NilValue, err |-> NoErr]
    ELSE [value |-> Bytes(Append(AppendStrings(appendArrayQuotedString(<<"{">>, a.v[1]),
                                               a.v, 2), "}")),
          err |-> NoErr]

\* StringArray.Value
StringArrayValue(a) ==
    IF a.nil THEN [value |-> NilValue, err |-> NoErr]
    ELSE IF Len(a.v) > 0
    THEN [value |-> Bytes(Append(AppendStrings(appendArrayQuotedString(<<"{">>, a.v[1]),
                                               a.v, 2), "}")),
          err |-> NoErr]
    ELSE [value |-> Bytes(<<"{", "}">>), err |-> NoErr]

Digits == <<"0", "1", "2", "3", "4", "5", "6", "7", "8", "9">>

DigitValue(c) == CHOOSE d \in 0..9 : Digits[d + 1] = c

IsDigit(c) == \E d \in 0..9 : Digits[d + 1] = c

\* the decimal digits of n >= 0
RECURSIVE FormatUint(_)
FormatUint(n) ==
    IF n < 10 THEN <<Digits[n + 1]>> ELSE Append(FormatUint(n \div 10), Digits[(n % 10) + 1])

\* strconv.AppendInt(b, n, 10)
AppendInt(b, n) == IF n < 0 THEN b \o <<"-">> \o FormatUint(0 - n) ELSE b \o FormatUint(n)

\* the number the decimal digits of s stand for
RECURSIVE ParseUint(_)
ParseUint(s) ==
    IF s = <<>> THEN 0
    ELSE (10 * ParseUint(SubSeq(s, 1, Len(s) - 1))) + DigitValue(s[Len(s)])

\* strconv.ParseInt(s, 10, 64): an optional sign, then one digit or more
\* (a token of MaxBytes bytes is within the range of int64)
ParseInt(s) ==
    LET signed == s # <<>> /\ s[1] \in {"+", "-"}
        digits == IF signed THEN Tail(s) ELSE s
    IN  IF digits = <<>> \/ \E k \in 1..Len(digits) : ~IsDigit(digits[k])
        THEN [n |-> 0, err |-> errSyntax]
        ELSE [n |-> IF signed /\ s[1] = "-" THEN 0 - ParseUint(digits)
                    ELSE ParseUint(digits),
              err |-> NoErr]

\* strings.Split(s, ","): the parts of s between its commas
RECURSIVE Split(_)
Split(s) ==
    IF \A k \in 1..Len(s) : s[k] # ","
    THEN <<s>>
    ELSE LET k == CHOOSE j \in 1..Len(s) :
                      s[j] = "," /\ \A m \in 1..(j - 1) : s[m] # ","
         IN  <<SubSeq(s, 1, k - 1)>> \o Split(SubSeq(s, k + 1, Len(s)))

\* the loop of Int64Array.Scan over the parts from the i-th
RECURSIVE ParseParts(_, _, _)
ParseParts(parts, i, results) ==
    IF i > Len(parts) THEN [results |-> results, err |-> NoErr]
    ELSE LET r == ParseInt(parts[i])
         IN  IF r.err # NoErr
             THEN [results |-> results, err |-> r.err]
             ELSE ParseParts(parts, i + 1, Append(results, r.n))

\* Int64Array.Scan on the receiver a: string(b)[1 : len(b)-1] panics when b
\* has one byte (slice bounds out of range)
Int64ArrayScan(a, src) ==
    IF src.kind = "nil" THEN Scanned(NilSlice, NoErr, FALSE)
    ELSE IF src.kind # "bytes" THEN Scanned(a, errNotBytes, FALSE)
    ELSE IF Len(src.b) = 0 THEN Scanned(NilSlice, NoErr, FALSE)
    ELSE IF Len(src.b) = 1 THEN Scanned(a, NoErr, TRUE)
    ELSE LET s == SubSeq(src.b, 2, Len(src.b) - 1)
             r == IF s # <<>> THEN ParseParts(Split(s), 1, <<>>)
                  ELSE [results |-> <<>>, err |-> NoErr]
         IN  IF r.err # NoErr
             THEN Scanned(a, r.err, FALSE)
             ELSE Scanned(Slice(r.results), NoErr, FALSE)

\* the loop of Int64Array.Value over the elements of a from the i-th
RECURSIVE AppendInts(_, _, _)
AppendInts(b, a, i) ==
    IF i > Len(a) THEN b
    ELSE AppendInts(AppendInt(Append(b, ","), a[i]), a, i + 1)

\* Int64Array.Value
Int64ArrayValue(a) ==
    IF a.nil THEN [value |-> NilValue, err |-> NoErr]
    ELSE IF Len(a.v) > 0
    THEN [value |-> Bytes(Append(AppendInts(AppendInt(<<"{">>, a.v[1]), a.v, 2), "}")),
          err |-> NoErr]
    ELSE [value |-> Bytes(<<"{", "}">>), err |-> NoErr]

(***************************************************************************)
(* The inputs of the codecs.                                               *)
(***************************************************************************)
\* the sequences over S of n elements at most
SeqsUpTo(S, n) == UNION {[1..k -> S] : k \in 0..n}

\* the sequences of strings over StringBytes whose number of elements plus
\* number of bytes is w at most
RECURSIVE StringsUpTo(_)
StringsUpTo(w) ==
    IF w = 0 THEN {<<>>}
    ELSE {<<>>} \cup
         UNION {{<<s>> \o a : a \in StringsUpTo(w - 1 - Len(s))} :
                    s \in SeqsUpTo(StringBytes, w - 1)}

\* the StringArray values a program holds
StringArrays == {NilSlice} \cup {Slice(v) : v \in StringsUpTo(MaxWeight)}

\* the Int64Array values a program holds
Int64Arrays == {NilSlice} \cup {Slice(v) : v \in SeqsUpTo(Int64s, MaxInts)}

\* the sources a driver hands to Scan
Sources(bytes) == {NilValue, StringValue} \cup {Bytes(b) : b \in SeqsUpTo(bytes, MaxBytes)}

\* the receivers of Scan before the call
Receivers == {NilSlice, Slice(<<>>)}

(***************************************************************************)
(* The codec in use.  type is the array type ("" when none is in use), a   *)
(* the array the program encodes, stored whether a value is stored, src    *)
(* the value stored, dst the receiver of Scan, calls the calls made so     *)
(* far, err and panic the error and the panic of the latest call.          *)
(***************************************************************************)
Codec(type, a, stored, src, dst) ==
    [type |-> type, a |-> a, stored |-> stored, src |-> src, dst |-> dst,
     calls |-> <<>>, err |-> NoErr, panic |-> FALSE]

\* no codec in use
NoCodec == Codec("", NilSlice, FALSE, NilValue, NilSlice)

(***************************************************************************)
(* The state machine.  frames is the heap of the paginator frames, in the  *)
(* order of their allocation; last is the outcome of the latest terminal   *)
(* call.                                                                   *)
(***************************************************************************)
\* the handles callers hold: the frames the Paginator interface returned
Handles == {h \in DOMAIN frames : frames[h].fn.op \notin {"nil", "new"}}

Newest == Len(frames)

Init ==
    /\ \E pageSize \in PageSizes : frames = newPaginator(pageSize)
    /\ last = NoCall
    /\ codec = NoCodec

Page(pag, pageNumber) ==
    /\ frames' = frame(frames, pag, [op |-> "Page", arg |-> pageNumber])
    /\ UNCHANGED <<last, codec>>

Cursor(pag, column) ==
    /\ frames' = frame(frames, pag, [op |-> "Cursor", arg |-> column])
    /\ UNCHANGED <<last, codec>>

NextPage(pag, cursorValue) ==
    /\ frames' = frame(frames, pag, [op |-> "NextPage", arg |-> cursorValue])
    /\ UNCHANGED <<last, codec>>

PrevPage(pag, cursorValue) ==
    /\ frames' = frame(frames, pag, [op |-> "PrevPage", arg |-> cursorValue])
    /\ UNCHANGED <<last, codec>>

DoFetch(pag, op) ==
    /\ last' = Fetch(op, frames, pag)
    /\ UNCHANGED <<frames, codec>>

DoTotalPages(pag, exec) ==
    /\ last' = TotalPages(frames, pag, exec)
    /\ UNCHANGED <<frames, codec>>

DoTotalItems(pag, exec) ==
    /\ last' = TotalItems(frames, pag, exec)
    /\ UNCHANGED <<frames, codec>>

\* a terminal call was made: it ends the caller's expression
Called == last # NoCall

\* one chained expression: the caller extends the newest handle, up to max
\* frames
Chain(max) ==
    \/ \E n \in PageNumbers : ~Called /\ Len(frames) < max /\ Page(Newest, n)
    \/ \E c \in Columns : ~Called /\ Len(frames) < max /\ Cursor(Newest, c)
    \/ \E v \in Values : ~Called /\ Len(frames) < max /\ NextPage(Newest, v)
    \/ \E v \in Values : ~Called /\ Len(frames) < max /\ PrevPage(Newest, v)

\* a chained expression that ends with a fetch on its newest handle
Next ==
    \/ Chain(MaxFrames)
    \/ \E op \in FetchOps : ~Called /\ DoFetch(Newest, op)

Spec == Init /\ [][Next]_vars

\* a chained expression that ends with a count on its newest handle
NextCount ==
    \/ Chain(MaxCountFrames)
    \/ \E exec \in CountExecs : ~Called /\ DoTotalPages(Newest, exec)
    \/ \E exec \in CountExecs : ~Called /\ DoTotalItems(Newest, exec)

SpecCount == Init /\ [][NextCount]_vars

\* the operations a caller that forks ends with
ForkOps == {"All", "Iterator", "String", "Arguments"}

\* the caller extends any handle it holds (forks) and ends with a fetch on
\* any of them
NextFork ==
    \/ \E h \in Handles, n \in PageNumbers :
          ~Called /\ Len(frames) < MaxForkFrames /\ Page(h, n)
    \/ \E h \in Handles, c \in Columns :
          ~Called /\ Len(frames) < MaxForkFrames /\ Cursor(h, c)
    \/ \E h \in Handles, v \in Values :
          ~Called /\ Len(frames) < MaxForkFrames /\ NextPage(h, v)
    \/ \E h \in Handles, v \in Values :
          ~Called /\ Len(frames) < MaxForkFrames /\ PrevPage(h, v)
    \/ \E h \in Handles, op \in ForkOps : ~Called /\ DoFetch(h, op)

SpecFork == Init /\ [][NextFork]_vars

(***************************************************************************)
(* The codecs at work: a program encodes an array it holds with Value and  *)
(* the value is stored, or a value is stored already; the stored value is  *)
(* then decoded with Scan.                                                 *)
(***************************************************************************)
InitCodec ==
    /\ frames = <<>>
    /\ last = NoCall
    /\ \/ \E a \in StringArrays :
             codec = Codec("StringArray", a, FALSE, NilValue, NilSlice)
       \/ \E a \in Int64Arrays :
             codec = Codec("Int64Array", a, FALSE, NilValue, NilSlice)
       \/ \E src \in Sources(StringBytes), dst \in Receivers :
             codec = Codec("StringArray", NilSlice, TRUE, src, dst)
       \/ \E src \in Sources(Int64Bytes), dst \in Receivers :
             codec = Codec("Int64Array", NilSlice, TRUE, src, dst)

Encoded(r) ==
    [codec EXCEPT !.stored = TRUE, !.src = r.value, !.calls = Append(@, "Value"),
                  !.err = r.err, !.panic = FALSE]

Decoded(r) ==
    [codec EXCEPT !.dst = r.a, !.calls = Append(@, "Scan"),
                  !.err = r.err, !.panic = r.panic]

DoStringArrayValue ==
    /\ codec.type = "StringArray"
    /\ ~codec.stored
    /\ codec' = Encoded(StringArrayValue(codec.a))
    /\ UNCHANGED <<frames, last>>

DoStringArrayScan ==
    /\ codec.type = "StringArray"
    /\ codec.stored
    /\ codec.calls \in {<<>>, <<"Value">>}
    /\ codec' = Decoded(StringArrayScan(codec.dst, codec.src))
    /\ UNCHANGED <<frames, last>>

DoInt64ArrayValue ==
    /\ codec.type = "Int64Array"
    /\ ~codec.stored
    /\ codec' = Encoded(Int64ArrayValue(codec.a))
    /\ UNCHANGED <<frames, last>>

DoInt64ArrayScan ==
    /\ codec.type = "Int64Array"
    /\ codec.stored
    /\ codec.calls \in {<<>>, <<"Value">>}
    /\ codec' = Decoded(Int64ArrayScan(codec.dst, codec.src))
    /\ UNCHANGED <<frames, last>>

NextCodec ==
    \/ DoStringArrayValue
    \/ DoStringArrayScan
    \/ DoInt64ArrayValue
    \/ DoInt64ArrayScan

SpecCodec == InitCodec /\ [][NextCodec]_vars

(***************************************************************************)
(* The call history of a handle, read off the frames of its chain.         *)
(***************************************************************************)
\* the frames of the chain of h, oldest first
RECURSIVE ChainOf(_, _)
ChainOf(fr, h) == IF h = 0 THEN <<>> ELSE Append(ChainOf(fr, fr[h].prev), h)

IsPrefix(s, t) == Len(s) <= Len(t) /\ s = SubSeq(t, 1, Len(s))

\* the newest frame of the chain of h made by one of the calls in ops; 0 if none
RECURSIVE LastOf(_, _, _)
LastOf(fr, h, ops) ==
    IF h = 0 THEN 0
    ELSE IF fr[h].fn.op \in ops THEN h
    ELSE LastOf(fr, fr[h].prev, ops)

\* the page size given to newPaginator
SizeGiven(fr, h) == fr[LastOf(fr, h, {"new"})].fn.arg

CursorCalls == {"NextPage", "PrevPage"}

\* the column of the newest Cursor call on the chain of h; "" if none
ColumnGiven(fr, h) ==
    LET c == LastOf(fr, h, {"Cursor"}) IN IF c = 0 THEN <<>> ELSE fr[c].fn.arg

\* the query that is limited and filtered: the inner one of a wrapped query
Inner(q) == IF q.src = "subquery" THEN q.from[1] ELSE q

\* the last call was a fetch that handed a query to the Selector
Fetched == Called /\ last.op \in FetchOps /\ last.invoked # ""

(***************************************************************************)
(* C1: fork isolation.  No fluent call changes what any existing handle    *)
(* resolves to: for every handle, the replay of its chain (the frames      *)
(* applied, the resolved limit, offset, cursor column, staged value,       *)
(* condition, direction, page size and page number) and the query of a     *)
(* fetch are the same after the step as before it, whichever handle the    *)
(* call was made on.                                                       *)
(***************************************************************************)
C1_ForkIsolation ==
    [][\A h \in Handles :
          /\ ChainOf(frames', h) = ChainOf(frames, h)
          /\ FastForward(frames', h) = FastForward(frames, h)
          /\ buildWithCursor(frames', h) = buildWithCursor(frames, h)]_vars

\* a handle with two different children was resolved after both were made
C1_Witness ==
    /\ Fetched
    /\ \E a, b \in Handles :
          /\ a # b
          /\ frames[a].prev = last.pag
          /\ frames[b].prev = last.pag
          /\ frames[a].fn.op = "NextPage"
          /\ frames[b].fn.op = "Page"

(***************************************************************************)
(* C2: the resolution of the handle of a terminal call applies the frames  *)
(* of its chain from the oldest to the newest, starting from the empty     *)
(* state; it stops at the first frame whose function fails, applies no     *)
(* later frame, and build and buildWithCursor return exactly the error of  *)
(* that frame.                                                             *)
(***************************************************************************)
C2_ResolutionOrder ==
    Called =>
        LET h == last.pag
            r == FastForward(frames, h)
            c == ChainOf(frames, h)
            f == r.applied[Len(r.applied)]
            before == FastForward(frames, Prev(frames, f))
        IN  /\ FastForward(frames, c[1]).pq = Base
            /\ IsPrefix(r.applied, c)
            /\ r.err = NoErr => r.applied = c
            /\ r.err # NoErr =>
                  /\ before.err = NoErr
                  /\ Fn(frames[f], before.pq).err = r.err
            /\ build(frames, h).err = r.err
            /\ buildWithCursor(frames, h).err = r.err

\* a call on a chain whose failing frame is followed by a newer frame
C2_Witness ==
    /\ Called
    /\ last.err = errMissingCursorColumn
    /\ Len(FastForward(frames, last.pag).applied) < Len(ChainOf(frames, last.pag))

(***************************************************************************)
(* C3: with a positive page size and a non-negative number in the newest   *)
(* Page call of a chain, the chain resolves to limit = pageSize and        *)
(* offset = pageSize * pageNumber, whatever Page calls came before.        *)
(***************************************************************************)
C3_PageOffset ==
    \A h \in Handles :
        LET r == build(frames, h)
            size == SizeGiven(frames, h)
            number == frames[LastOf(frames, h, {"Page"})].fn.arg
        IN  (r.err = NoErr /\ size > 0 /\ number >= 0) =>
                /\ r.pq.sel.limit = <<size>>
                /\ r.pq.sel.offset = <<size * number>>

\* the number given to the newest Page call on the chain of h
NumberGiven(fr, h) == fr[LastOf(fr, h, {"Page"})].fn.arg

\* the predicate the NextPage or PrevPage call of frame f asks for: the
\* column of the newest Cursor call before it, its operator, its value
PredicateOf(fr, f) ==
    {[key |-> ColumnGiven(fr, Prev(fr, f))
                 \o <<" ", IF fr[f].fn.op = "NextPage" THEN ">" ELSE "<">>,
      value |-> fr[f].fn.arg]}

\* the newest NextPage or PrevPage of h directly follows the newest Cursor
\* call of h, Page calls aside
CursorThen(fr, h, call) ==
    LET m == LastOf(fr, h, CursorCalls)
        c == LastOf(fr, h, {"Cursor"})
    IN  /\ m # 0
        /\ fr[m].fn.op = call
        /\ c # 0
        /\ c = LastOf(fr, Prev(fr, m), {"Cursor", "NextPage", "PrevPage"})

(***************************************************************************)
(* C4 as stated: a fetch on the handle Page(n) returned, n negative, hands *)
(* the Selector a query with offset -1, not 0.                             *)
(***************************************************************************)
C4_NegativePageSentinel ==
    (Fetched /\ frames[last.pag].fn.op = "Page" /\ frames[last.pag].fn.arg < 0) =>
        Inner(last.query).offset = <<-1>>

(***************************************************************************)
(* C4 amended: when the newest Page call of the chain has a negative       *)
(* number, the chain resolves to page number -1 and offset -1; the query a *)
(* fetch hands to the Selector has that offset -1 when no NextPage or      *)
(* PrevPage call is on the chain, and offset 0 when one is.                *)
(***************************************************************************)
C4_NegativePageSentinelNoCursor ==
    (Called /\ NumberGiven(frames, last.pag) < 0) =>
        LET r == build(frames, last.pag)
        IN  /\ r.err = NoErr =>
                  /\ r.pq.pageNumber = -1
                  /\ r.pq.sel.offset = <<-1>>
            /\ Fetched =>
                  Inner(last.query).offset =
                      IF LastOf(frames, last.pag, CursorCalls) = 0
                      THEN <<-1>>
                      ELSE <<0>>

\* a fetch after Page(2) then Page(-2), with no cursor call
C4_Witness ==
    /\ Fetched
    /\ LastOf(frames, last.pag, CursorCalls) = 0
    /\ frames[last.pag].fn = [op |-> "Page", arg |-> -2]
    /\ frames[frames[last.pag].prev].fn = [op |-> "Page", arg |-> 2]
    /\ last.query.offset = <<-1>>

(***************************************************************************)
(* C5: when the chain resolves to a page size <= 0, TotalPages returns 1   *)
(* and no error, whatever the count query yields.                          *)
(***************************************************************************)
C5_TotalPagesUnlimited ==
    LET r == build(frames, last.pag)
    IN  (Called /\ last.op = "TotalPages" /\ r.err = NoErr /\ r.pq.pageSize <= 0) =>
            /\ last.ret = <<1>>
            /\ last.err = NoErr
            /\ ~last.panic

(***************************************************************************)
(* C6: the cursor condition of a resolved chain is the predicate of its    *)
(* newest NextPage or PrevPage call and nothing else, and a fetch filters  *)
(* by exactly that one predicate; after Cursor(c) then NextPage(v) the     *)
(* predicate is "c >" : v, and the query is not wrapped and is ordered by  *)
(* c as given (not ordered when c is empty).                               *)
(***************************************************************************)
C6_NextPagePredicate ==
    Fetched =>
        LET h == last.pag
            m == LastOf(frames, h, CursorCalls)
            c == ColumnGiven(frames, h)
        IN  /\ m # 0 =>
                  /\ build(frames, h).pq.cursorCond = PredicateOf(frames, m)
                  /\ Cardinality(build(frames, h).pq.cursorCond) = 1
                  /\ Inner(last.query).where = <<PredicateOf(frames, m)>>
            /\ CursorThen(frames, h, "NextPage") =>
                  /\ last.query.src = "sel"
                  /\ last.query.where =
                         <<{[key |-> c \o <<" ", ">">>, value |-> frames[m].fn.arg]}>>
                  /\ last.query.orderBy = IF c = <<>> THEN <<>> ELSE <<c>>

\* a fetch after Cursor("id"), PrevPage(1), NextPage(1)
C6_Witness ==
    /\ Fetched
    /\ frames[last.pag].fn = [op |-> "NextPage", arg |-> <<1>>]
    /\ frames[Prev(frames, last.pag)].fn = [op |-> "PrevPage", arg |-> <<1>>]
    /\ frames[Prev(frames, Prev(frames, last.pag))].fn
           = [op |-> "Cursor", arg |-> <<"i", "d">>]
    /\ last.query.where = <<{[key |-> <<"i", "d", " ", ">">>, value |-> <<1>>]}>>

(***************************************************************************)
(* C7: after Cursor(c) then PrevPage(v), with c not empty, a fetch hands   *)
(* the Selector a wrapped query: the inner query is limited, filtered by   *)
(* the one predicate "c <" : v and ordered by c with its leading dash      *)
(* removed or added; the outer query selects all of its columns and is     *)
(* ordered by c as given.                                                  *)
(***************************************************************************)
Flipped(c) == IF c[1] = "-" THEN SubSeq(c, 2, Len(c)) ELSE <<"-">> \o c

C7_PrevPageOrder ==
    LET h == last.pag
        m == LastOf(frames, h, CursorCalls)
        c == ColumnGiven(frames, h)
    IN  (Fetched /\ CursorThen(frames, h, "PrevPage") /\ c # <<>>) =>
            /\ last.query.src = "subquery"
            /\ last.query.columns = <<"_q0.*">>
            /\ last.query.orderBy = <<c>>
            /\ last.query.where = <<>>
            /\ Inner(last.query).where =
                   <<{[key |-> c \o <<" ", "<">>, value |-> frames[m].fn.arg]}>>
            /\ Inner(last.query).orderBy = <<Flipped(c)>>
            /\ Inner(last.query).limit # <<>>
            /\ Inner(last.query).src = "sel"

\* a fetch after Cursor("-id") then PrevPage(1)
C7_Witness ==
    /\ Fetched
    /\ frames[last.pag].fn = [op |-> "PrevPage", arg |-> <<1>>]
    /\ frames[frames[last.pag].prev].fn = [op |-> "Cursor", arg |-> <<"-", "i", "d">>]
    /\ Inner(last.query).orderBy = <<<<"i", "d">>>>
    /\ last.query.orderBy = <<<<"-", "i", "d">>>>

(***************************************************************************)
(* C8: a terminal call on the handle of a NextPage or PrevPage call fails  *)
(* with errMissingCursorColumn, and invokes nothing, when the newest of    *)
(* the Cursor, NextPage and PrevPage calls before it is a NextPage or      *)
(* PrevPage that staged a value (not nil) and the newest Cursor call       *)
(* before it, if any, gave the empty column.  The first NextPage or        *)
(* PrevPage call of a chain, with no column or the empty one, does not     *)
(* fail: it builds the condition with the empty column name.               *)
(***************************************************************************)
C8_MissingCursorColumn ==
    (Called /\ frames[last.pag].fn.op \in CursorCalls) =>
        LET h == last.pag
            p == Prev(frames, h)
            s == LastOf(frames, p, {"Cursor", "NextPage", "PrevPage"})
            staged == /\ s # 0
                      /\ frames[s].fn.op \in CursorCalls
                      /\ frames[s].fn.arg # Nil
            nocolumn == ColumnGiven(frames, p) = <<>>
            r == FastForward(frames, h)
        IN  /\ (staged /\ nocolumn) =>
                  /\ r.err = errMissingCursorColumn
                  /\ build(frames, h).err = errMissingCursorColumn
                  /\ buildWithCursor(frames, h).err = errMissingCursorColumn
                  /\ last.invoked = ""
            /\ (LastOf(frames, p, CursorCalls) = 0 /\ nocolumn) =>
                  /\ r.err = NoErr
                  /\ r.pq.cursorColumn = <<>>
                  /\ r.pq.cursorCond =
                         {[key |-> <<" ", IF frames[h].fn.op = "NextPage"
                                         THEN ">" ELSE "<">>,
                           value |-> frames[h].fn.arg]}
                  /\ last.invoked # ""

\* a call on Cursor(""), NextPage(1), PrevPage(1) returned the error
C8_Witness ==
    /\ Called
    /\ last.err = errMissingCursorColumn
    /\ frames[last.pag].fn = [op |-> "PrevPage", arg |-> <<1>>]
    /\ frames[Prev(frames, last.pag)].fn = [op |-> "NextPage", arg |-> <<1>>]
    /\ frames[Prev(frames, Prev(frames, last.pag))].fn = [op |-> "Cursor", arg |-> <<>>]

(***************************************************************************)
(* C9 as stated: the newest of the Page, NextPage and PrevPage calls of a  *)
(* chain decides the query of a fetch.  Page: the offset the chain         *)
(* resolved to, no predicate, no wrapping.  NextPage: one predicate, no    *)
(* wrapping.  PrevPage: one predicate, wrapped.                            *)
(***************************************************************************)
OffsetMode(q, h) ==
    /\ q.src = "sel"
    /\ q.where = <<>>
    /\ q.offset = build(frames, h).pq.sel.offset

ForwardMode(q, f) ==
    /\ q.src = "sel"
    /\ q.where = <<PredicateOf(frames, f)>>
    /\ q.offset = <<0>>

BackwardMode(q, f) ==
    /\ q.src = "subquery"
    /\ q.where = <<>>
    /\ Inner(q).where = <<PredicateOf(frames, f)>>
    /\ Inner(q).offset = <<0>>

C9_ModeByNewestCall ==
    Fetched =>
        LET m == LastOf(frames, last.pag, {"Page", "NextPage", "PrevPage"})
        IN  CASE frames[m].fn.op = "Page" -> OffsetMode(last.query, last.pag)
              [] frames[m].fn.op = "NextPage" -> ForwardMode(last.query, m)
              [] frames[m].fn.op = "PrevPage" -> BackwardMode(last.query, m)

(***************************************************************************)
(* C9 amended: the newest of the NextPage and PrevPage calls of a chain    *)
(* decides the query of a fetch, wherever the Page calls are.  None on the *)
(* chain: the offset the chain resolved to, no predicate, no wrapping.     *)
(* NextPage: its predicate, offset 0, no wrapping.  PrevPage: its          *)
(* predicate, offset 0, wrapped.                                           *)
(***************************************************************************)
C9_ModeByNewestCursorCall ==
    Fetched =>
        LET m == LastOf(frames, last.pag, CursorCalls)
        IN  CASE m = 0 -> OffsetMode(last.query, last.pag)
              [] m # 0 /\ frames[m].fn.op = "NextPage" -> ForwardMode(last.query, m)
              [] m # 0 /\ frames[m].fn.op = "PrevPage" -> BackwardMode(last.query, m)

\* a fetch after PrevPage(1) then Page(2): still a backward cursor page
C9_Witness ==
    /\ Fetched
    /\ frames[last.pag].fn = [op |-> "Page", arg |-> 2]
    /\ frames[Prev(frames, last.pag)].fn = [op |-> "PrevPage", arg |-> <<1>>]
    /\ last.query.src = "subquery"

(***************************************************************************)
(* C10: a fetch on a handle whose resolution fails invokes no operation of *)
(* the Selector and hands the error to the caller: as the returned error,  *)
(* in the iterator it returns, or, for String, as a panic.                 *)
(***************************************************************************)
C10_ResolutionErrorSurfaced ==
    LET e == buildWithCursor(frames, last.pag).err
    IN  (Called /\ last.op \in FetchOps /\ e # NoErr) =>
            /\ last.invoked = ""
            /\ \/ last.err = e
               \/ last.ret = <<"iterator", e>>
               \/ last.op = "String" /\ last.panic

(***************************************************************************)
(* C11: the round trip of a string array.  When a StringArray that is not  *)
(* nil is encoded with Value and the bytes are decoded with Scan, Scan     *)
(* returns no error and leaves exactly the elements that were encoded, in  *)
(* the same order and number, whatever quotes, backslashes, commas,        *)
(* braces, spaces and empty strings they hold.                             *)
(***************************************************************************)
C11_StringArrayRoundTrip ==
    (codec.type = "StringArray" /\ codec.calls = <<"Value", "Scan">> /\ ~codec.a.nil) =>
        /\ codec.src.kind = "bytes"
        /\ codec.err = NoErr
        /\ ~codec.panic
        /\ ~codec.dst.nil
        /\ Len(codec.dst.v) = Len(codec.a.v)
        /\ codec.dst.v = codec.a.v

\* the round trip of [`,"`, "", ""]: a comma, a quote, two trailing empty strings
C11_Witness ==
    /\ codec.type = "StringArray"
    /\ codec.calls = <<"Value", "Scan">>
    /\ codec.a = Slice(<<<<",", "\"">>, <<>>, <<>>>>)
    /\ codec.src = Bytes(<<"{", "\"", ",", "\\", "\"", "\"", ",", "\"", "\"", ",",
                           "\"", "\"", "}">>)
    /\ codec.dst = codec.a

(***************************************************************************)
(* C12: absent and zero-length stay apart, for StringArray and Int64Array. *)
(* Value of a nil array is the nil value and no error, Value of an array   *)
(* that is not nil and has no element is the two bytes {}, and Value gives *)
(* neither for an array with elements.  Scan of the bytes {} leaves an     *)
(* array that is not nil and has no element; Scan of a nil source or of a  *)
(* []byte of length 0 leaves the nil array; all three without error.       *)
(***************************************************************************)
C12_AbsentNotEmpty ==
    /\ (codec.calls # <<>> /\ codec.calls[1] = "Value") =>
          /\ codec.a.nil <=> codec.src.kind = "nil"
          /\ ~codec.a.nil => codec.src.kind = "bytes"
          /\ (~codec.a.nil /\ Len(codec.a.v) = 0) <=> codec.src = Bytes(<<"{", "}">>)
          /\ codec.calls = <<"Value">> => codec.err = NoErr
    /\ (codec.calls # <<>> /\ codec.calls[Len(codec.calls)] = "Scan") =>
          /\ codec.src = Bytes(<<"{", "}">>) =>
                /\ ~codec.dst.nil
                /\ Len(codec.dst.v) = 0
                /\ codec.err = NoErr
                /\ ~codec.panic
          /\ (codec.src.kind = "nil" \/ codec.src = Bytes(<<>>)) =>
                /\ codec.dst = NilSlice
                /\ codec.err = NoErr
                /\ ~codec.panic

\* an Int64Array with no element was encoded to {} and decoded to an array
\* that is not nil
C12_Witness ==
    /\ codec.type = "Int64Array"
    /\ codec.calls = <<"Value", "Scan">>
    /\ codec.a = Slice(<<>>)
    /\ codec.src = Bytes(<<"{", "}">>)
    /\ ~codec.dst.nil

(***************************************************************************)
(* C13: a source of one byte or more that lacks its closing bracket is     *)
(* rejected.  StringArray.Scan returns an error when its loop ends in a    *)
(* state other than stateStop; Int64Array.Scan returns an error when the   *)
(* last byte of the source is not }.                                       *)
(***************************************************************************)
C13_MissingCloseRejected ==
    (/\ codec.calls # <<>>
     /\ codec.calls[Len(codec.calls)] = "Scan"
     /\ codec.src.kind = "bytes"
     /\ Len(codec.src.b) > 0) =>
        LET b == codec.src.b
        IN  /\ (codec.type = "StringArray"
                    /\ ScanLoop(b, 2, ScanStart).state # stateStop) =>
                  (codec.err # NoErr /\ ~codec.panic)
            /\ (codec.type = "Int64Array" /\ b[Len(b)] # "}") =>
                  (codec.err # NoErr /\ ~codec.panic)

(***************************************************************************)
(* C14: StringArray.Scan accepts no byte after the closing bracket.  When  *)
(* the scan of the first k bytes of a source ends in stateStop and the     *)
(* source has more than k bytes, Scan returns the error "Got additional    *)
(* data beyond expected bounds".                                           *)
(***************************************************************************)
C14_NothingAfterStop ==
    (/\ codec.type = "StringArray"
     /\ codec.calls # <<>>
     /\ codec.calls[Len(codec.calls)] = "Scan"
     /\ codec.src.kind = "bytes") =>
        LET b == codec.src.b
        IN  \A k \in 1..(Len(b) - 1) :
                LET st == ScanLoop(SubSeq(b, 1, k), 2, ScanStart)
                IN  (st.err = NoErr /\ st.state = stateStop) =>
                        (codec.err = errBeyond /\ ~codec.panic)

\* the scan of {}a was rejected
C14_Witness ==
    /\ codec.type = "StringArray"
    /\ codec.calls = <<"Scan">>
    /\ codec.src = Bytes(<<"{", "}", "a">>)
    /\ codec.err = errBeyond

(***************************************************************************)
(* C15: a chain resolves to a cursor condition exactly when a NextPage or  *)
(* PrevPage call is on it.  When one is, every fetch hands the Selector a  *)
(* query limited and filtered at offset 0, whatever Page calls are on the  *)
(* chain, before or after the cursor calls; when none is, the query has    *)
(* the offset the chain resolved to.                                       *)
(***************************************************************************)
C15_CursorForcesOffsetZero ==
    Fetched =>
        LET r == build(frames, last.pag)
            cursor == LastOf(frames, last.pag, CursorCalls) # 0
        IN  /\ cursor <=> r.pq.cursorCond # NilCond
            /\ cursor => Inner(last.query).offset = <<0>>
            /\ ~cursor =>
                  /\ last.query.src = "sel"
                  /\ last.query.offset = r.pq.sel.offset

\* a fetch after NextPage(1) then Page(2): the chain resolved to an offset
\* that is not 0, the query has offset 0
C15_Witness ==
    /\ Fetched
    /\ frames[last.pag].fn = [op |-> "Page", arg |-> 2]
    /\ frames[Prev(frames, last.pag)].fn = [op |-> "NextPage", arg |-> <<1>>]
    /\ build(frames, last.pag).pq.sel.offset # <<0>>
    /\ last.query.offset = <<0>>

(***************************************************************************)
(* C16: TotalItems does not depend on the pagination state.  On every      *)
(* chain that resolves without error, whatever Page, Cursor, NextPage and  *)
(* PrevPage calls it has and whatever page size it was made with,          *)
(* TotalItems hands QueryRow the same query: the caller's selector with    *)
(* the count as its only column, limit 0 and offset 0, no predicate, no    *)
(* ordering and no wrapping.                                               *)
(***************************************************************************)
C16_TotalItemsIndependent ==
    (Called /\ last.op = "TotalItems" /\ build(frames, last.pag).err = NoErr) =>
        /\ last.invoked = "QueryRow"
        /\ last.query =
               [src |-> "sel", columns |-> <<"count(1) AS _t">>, limit |-> <<0>>,
                offset |-> <<0>>, orderBy |-> <<>>, where |-> <<>>, from |-> <<>>]

\* TotalItems after Page(2) then PrevPage(1), on a chain that resolved to
\* an offset other than 0 and a cursor condition
C16_Witness ==
    /\ Called
    /\ last.op = "TotalItems"
    /\ last.invoked = "QueryRow"
    /\ frames[last.pag].fn = [op |-> "PrevPage", arg |-> <<1>>]
    /\ frames[Prev(frames, last.pag)].fn = [op |-> "Page", arg |-> 2]
    /\ build(frames, last.pag).pq.cursorCond # NilCond
    /\ build(frames, last.pag).pq.sel.offset \notin {<<0>>}
    /\ last.query.offset = <<0>>

(***************************************************************************)
(* C17: a failure of the executor is returned to the caller.  When the     *)
(* chain resolves and the execution of the count query fails (QueryRow     *)
(* returns its error and no row, or the scan of the row returns the        *)
(* error), TotalPages and TotalItems return an error and the count 0, and  *)
(* do not panic.                                                           *)
(***************************************************************************)
C17_ExecutorErrorReturned ==
    [][\A exec \in CountExecs :
          (/\ exec.kind # "row"
           /\ build(frames, Newest).err = NoErr
           /\ DoTotalPages(Newest, exec) \/ DoTotalItems(Newest, exec)) =>
              /\ ~last'.panic
              /\ last'.err # NoErr
              /\ last'.ret = <<0>>]_vars

(***************************************************************************)
(* C18: StringArray.Scan accepts a source of one byte or more only when    *)
(* its first byte is {: for any other first byte it returns an error.      *)
(***************************************************************************)
C18_FirstByteIsOpenBracket ==
    (/\ codec.type = "StringArray"
     /\ codec.calls # <<>>
     /\ codec.calls[Len(codec.calls)] = "Scan"
     /\ codec.src.kind = "bytes"
     /\ Len(codec.src.b) > 0
     /\ codec.src.b[1] # "{") =>
        (codec.err # NoErr /\ ~codec.panic)

(***************************************************************************)
(* C19: Int64Array.Scan is total and strict.  On a []byte of any length it *)
(* returns (it does not panic), and when it returns no error for a source  *)
(* of one byte or more, the source has two bytes at least, begins with {   *)
(* and ends with }, and the receiver is left not nil.                      *)
(***************************************************************************)
C19_Int64ScanTotal ==
    (/\ codec.type = "Int64Array"
     /\ codec.calls # <<>>
     /\ codec.calls[Len(codec.calls)] = "Scan"
     /\ codec.src.kind = "bytes") =>
        LET b == codec.src.b
        IN  /\ ~codec.panic
            /\ (codec.err = NoErr /\ Len(b) > 0) =>
                  /\ Len(b) >= 2
                  /\ b[1] = "{"
                  /\ b[Len(b)] = "}"
                  /\ ~codec.dst.nil

(***************************************************************************)
(* C20: for every page size given to newPaginator and every sequence of    *)
(* Page calls, the offset a chain resolves to is negative only when the    *)
(* number of its newest Page call is negative, and is then -1; with a      *)
(* number that is not negative the offset is not negative.                 *)
(***************************************************************************)
C20_NegativeOffsetOnlySentinel ==
    \A h \in Handles :
        LET r == build(frames, h)
            number == NumberGiven(frames, h)
        IN  r.err = NoErr =>
                /\ number < 0 => r.pq.sel.offset = <<-1>>
                /\ number >= 0 => r.pq.sel.offset[1] >= 0

====
